---- MODULE Spec2Model ----
(***************************************************************************)
(* Rikugan 0.2.0: the streaming / replay subsystem and the browser side.   *)
(*                                                                         *)
(* Several parts, each with its own specifications over the same variables:*)
(*   Spec, SpecReconnect, SpecFrames   the WebSocketService, the terminal's*)
(*                 JSON and binary handlers and the activation store;      *)
(*   SpecProducer  the producing side of the chunk transport (server);     *)
(*   SpecPlayback, SpecPlaybackFair   the History Store (ring buffer) and  *)
(*                 the Playback Engine;                                    *)
(*   SpecViewport, SpecIsolate, SpecSlices   the viewport store, the       *)
(*                 commands that act on it and the slice textures;         *)
(*   SpecTerminal, SpecRun, SpecHistory, SpecModel   the terminal's key    *)
(*                 handling, the commands entered and the model store.     *)
(* Data is modelled in 32-bit words: every header field of the wire format *)
(* is a uint32 and the payload is float32, so one word is 4 bytes.         *)
(***************************************************************************)
EXTENDS Integers, Sequences, FiniteSets, TLC

VARIABLES
    \* ---- frontend: services/websocket.ts
    sockState,      \* readyState of every WebSocket the service has created
    onclose,        \* whether the socket still has its onclose handler
    ws,             \* WebSocketService.ws: index of the current socket, 0 = null
    reconnectTimer, \* WebSocketService.reconnectTimer is pending
    sent,           \* the messages written to the socket by send()
    \* ---- frontend: stores/activationStore.ts
    blockHeat, numLayers, sliceData, sliceMeta, tokenProj, dimProj, projMeta,
    \* ---- the batch the server is streaming and what has arrived of it
    batch,          \* [id, payload, size]: batch identifier, serialized payload, chunk size
    received,       \* chunk indices the binary handler has been called with
    rxCount,        \* number of binary messages handled so far
    lastFrame,      \* the last binary message handed to the binary handlers
    run,            \* what the current inference run has sent so far:
                    \* "none" (no run yet) | "frame" (activation.frame only) | "slices"
    \* ---- producer side of the chunk transport
    chState,        \* "IDLE" | "SENDING" | "AWAITING_ACK" | "FAILED" | "CLOSED"
    nextIdx,        \* index of the next chunk that has never been sent
    unacked,        \* sequence of chunk indices sent and not yet acknowledged
    retries,        \* resends of the oldest unacknowledged chunk so far
    wire,           \* every chunk index put on the channel, in order
    pEvent,         \* the producer's last step: "none" | "start" | "send" | "ack" | "resend" | "fail" | "close"
    \* ---- History Store and Playback Engine
    store,          \* resident records, oldest first
    produced,       \* number of records appended so far (next step index)
    pbState,        \* "Idle" | "Playing" | "Paused" | "Seeking"
    cursor,         \* Playback Cursor: current step
    result,         \* result of the last control call
    lastOp,         \* the last operation: its name and argument, the state, cursor and
                    \* operation before it
    waitArmed,      \* a speed-derived wait of the engine is in flight
    txFrame,        \* the step whose frame the last operation queued onto the Transport
    \* ---- frontend: the terminal (useTerminal, terminalStore, App)
    inputBuffer,    \* useTerminal.inputBuffer: the characters of the line being typed
    history,        \* terminalStore.history: the lines entered, oldest first
    historyIndex,   \* useTerminal.historyIndex, -1 when not navigating
    busy,           \* useTerminal.busyRef
    isFocused,      \* terminalStore.isFocused
    domFocus,       \* where the browser's keyboard focus is: "terminal" | "viewport"
    pressed,        \* useArrowPan.pressed: the arrow keys held down for panning
    lastKey,        \* the key pressed in the last step, "none" if it was no key press
    promptCount,    \* prompts written to the terminal since the last line was entered
    \* ---- frontend: stores/modelStore.ts and the newer viewport store
    modelStatus,    \* "idle" | "loading" | "loaded" | "error"
    modelId,        \* model store: adapter id of the loaded model, None = null
    modelName,      \* model store: the name given to load, None = null
    metadata,       \* model store: ModelInfo of the loaded model, None = null
    gamma,          \* viewport store: contrast exponent in tenths (3.0 is 30)
    isolatedLayers, \* viewport store: the isolated layer indices, in order
    sliceDepth,     \* viewport store: slice plane depth in thousandths, None = off
    \* ---- command dispatch
    lastCmd,        \* the last command dispatched or store operation called
    cmdOut,         \* the line that operation wrote to the terminal, None if none
    \* ---- viewport: the slice textures
    upload          \* the last slice copied into a texture: [layer, slice, offset, data]

frontendVars == <<sockState, onclose, ws, reconnectTimer, sent, blockHeat, numLayers,
                  sliceData, sliceMeta, tokenProj, dimProj, projMeta, received, rxCount, lastFrame, run>>
producerVars == <<chState, nextIdx, unacked, retries, wire, pEvent>>
playbackVars == <<store, produced, pbState, cursor, result, lastOp, waitArmed, txFrame>>
keyVars == <<inputBuffer, history, historyIndex, busy, isFocused, domFocus, pressed,
             lastKey>>
terminalVars == <<keyVars, promptCount>>
modelVars == <<modelStatus, modelId, modelName, metadata>>
storeVars == <<modelVars, isolatedLayers, sliceDepth, gamma>>
dispatchVars == <<lastCmd, cmdOut>>
uiVars == <<terminalVars, storeVars, dispatchVars, upload>>
vars == <<frontendVars, batch, producerVars, playbackVars, uiVars>>

\* A nullable value: None is null, Some(x) holds x.
None == <<>>
Some(x) == <<x>>

Min(a, b) == IF a < b THEN a ELSE b

----------------------------------------------------------------------------
(* Bounds of the model *)
MaxSockets == 2
MaxPayload == 3
MaxChunkSize == 2
MaxRx == 3
MaxSent == 1
MaxRetries == 2
Capacity == 4
MaxSteps == 6
MaxLayer == 4
MaxInput == 2
MaxHistory == 2
MaxPrompts == 1

Words == {10, 11}
BatchIds == {1, 2, 3}

----------------------------------------------------------------------------
(* Producer side of the wire format: Frame Serializer and chunking.        *)

\* Number of chunks of a payload of P words with chunk size S: ceil(P / S).
ChunkCountMutant(P, S) == P \div S
ChunkCount(P, S) == (P + S - 1) \div S

\* The payload words carried by chunk i (0-based); the last chunk may be short.
ChunkBytes(payload, S, i) == SubSeq(payload, i * S + 1, Min((i + 1) * S, Len(payload)))

\* ChunkHeader { batch_id, chunk_index, chunk_count, byte_offset }.
ChunkHeader(b, i, n, off) == <<b, i, n, off>>

\* The Batch Header carried by the first chunk: a length prefix, then the
\* metadata record, here the declared payload length.
BatchHeader(payload) == <<1, Len(payload)>>

\* The binary message carrying chunk i of a batch.
ChunkMessage(b, i) ==
    ChunkHeader(b.id, i, ChunkCount(Len(b.payload), b.size), i * b.size)
        \o (IF i = 0 THEN BatchHeader(b.payload) ELSE <<>>)
        \o ChunkBytes(b.payload, b.size, i)

ChunkIndices(b) == 0 .. (ChunkCount(Len(b.payload), b.size) - 1)

Payloads == UNION {[1..n -> Words] : n \in 1..MaxPayload}

Batches == [id : BatchIds, payload : Payloads, size : 1..MaxChunkSize]

----------------------------------------------------------------------------
(* services/websocket.ts: WebSocketService                                 *)

Sockets == 1..MaxSockets

FreeSockets == {n \in Sockets : sockState[n] = "unused"}

\* connect(): returns early when the current socket is OPEN, otherwise creates
\* a socket and installs the handlers on it.
ConnectBody ==
    IF ws # 0 /\ sockState[ws] = "open"
    THEN UNCHANGED <<sockState, onclose, ws>>
    ELSE \E n \in FreeSockets :
            /\ \A m \in FreeSockets : n <= m
            /\ sockState' = [sockState EXCEPT ![n] = "connecting"]
            /\ onclose' = [onclose EXCEPT ![n] = TRUE]
            /\ ws' = n

\* App mounts: wsService.connect().
Connect ==
    /\ ~(ws # 0 /\ sockState[ws] = "open")
    /\ ConnectBody
    /\ UNCHANGED <<reconnectTimer, sent, blockHeat, numLayers, sliceData, sliceMeta,
                   tokenProj, dimProj, projMeta, received, rxCount, lastFrame, run, batch,
                   producerVars, playbackVars, uiVars>>

\* The browser reports the connection established (ws.onopen only logs).
SocketOpen(n) ==
    /\ sockState[n] = "connecting"
    /\ sockState' = [sockState EXCEPT ![n] = "open"]
    /\ UNCHANGED <<onclose, ws, reconnectTimer, sent, blockHeat, numLayers, sliceData,
                   sliceMeta, tokenProj, dimProj, projMeta, received, rxCount, lastFrame, run, batch,
                   producerVars, playbackVars, uiVars>>

\* scheduleReconnect(): arms the 2 s timer unless one is pending.
ScheduleReconnectMutant == UNCHANGED reconnectTimer
ScheduleReconnect == reconnectTimer' = TRUE

\* The connection closes; ws.onclose, when still installed, schedules a reconnect.
SocketClose(n) ==
    /\ sockState[n] \in {"connecting", "open", "closing"}
    /\ sockState' = [sockState EXCEPT ![n] = "closed"]
    /\ IF onclose[n] THEN ScheduleReconnect ELSE UNCHANGED reconnectTimer
    /\ UNCHANGED <<onclose, ws, sent, blockHeat, numLayers, sliceData, sliceMeta,
                   tokenProj, dimProj, projMeta, received, rxCount, lastFrame, run, batch,
                   producerVars, playbackVars, uiVars>>

\* The reconnect timer fires: clears itself and calls connect().
ReconnectFire ==
    /\ reconnectTimer
    /\ reconnectTimer' = FALSE
    /\ (ws # 0 /\ sockState[ws] = "open") \/ FreeSockets # {}
    /\ ConnectBody
    /\ UNCHANGED <<sent, blockHeat, numLayers, sliceData, sliceMeta, tokenProj, dimProj,
                   projMeta, received, rxCount, lastFrame, run, batch, producerVars, playbackVars, uiVars>>

\* disconnect(): cancels the timer, removes onclose from the current socket,
\* closes it and forgets it.
Disconnect ==
    /\ reconnectTimer \/ ws # 0
    /\ reconnectTimer' = FALSE
    /\ IF ws # 0
       THEN /\ onclose' = [onclose EXCEPT ![ws] = FALSE]
            /\ sockState' = [sockState EXCEPT
                    ![ws] = IF @ \in {"connecting", "open"} THEN "closing" ELSE @]
            /\ ws' = 0
       ELSE UNCHANGED <<onclose, sockState, ws>>
    /\ UNCHANGED <<sent, blockHeat, numLayers, sliceData, sliceMeta, tokenProj, dimProj,
                   projMeta, received, rxCount, lastFrame, run, batch, producerVars, playbackVars, uiVars>>

\* send(msg): writes the JSON message when the current socket is OPEN, drops it
\* otherwise. WsOutgoing has the single member inference.run.
Send(msg) ==
    /\ ws # 0 /\ sockState[ws] = "open"
    /\ Len(sent) < MaxSent
    /\ sent' = Append(sent, msg)
    /\ UNCHANGED <<sockState, onclose, ws, reconnectTimer, blockHeat, numLayers,
                   sliceData, sliceMeta, tokenProj, dimProj, projMeta, received, rxCount, lastFrame,
                   run, batch, producerVars, playbackVars, uiVars>>

\* dispatchCommand, case 'run'.
SendRun == Send([type |-> "inference.run"])

----------------------------------------------------------------------------
(* useTerminal: the handlers registered with the service                   *)

\* JSON messages of the server (WsIncoming), with small payloads.
JsonMessages ==
    {[type |-> "activation.frame", block_heat |-> <<5>>, num_layers |-> 1]}
    \cup {[type |-> "activation.slices", seq_len |-> 1, d_model |-> 1]}
    \cup {[type |-> "activation.projections", token_proj_size |-> s] : s \in {4, 6}}
    \cup {[type |-> "inference.result"], [type |-> "error"]}

\* The JSON handler of useTerminal; inference.result and error write the text
\* and then the prompt to the terminal.
JsonHandler(msg) ==
    /\ IF msg.type = "activation.frame"
       THEN /\ blockHeat' = Some(msg.block_heat)
            /\ numLayers' = msg.num_layers
       ELSE UNCHANGED <<blockHeat, numLayers>>
    /\ IF msg.type = "activation.slices"
       THEN sliceMeta' = Some([seq_len |-> msg.seq_len, d_model |-> msg.d_model])
       ELSE UNCHANGED sliceMeta
    /\ IF msg.type = "activation.projections"
       THEN projMeta' = Some([token_proj_size |-> msg.token_proj_size])
       ELSE UNCHANGED projMeta
    /\ IF msg.type \in {"inference.result", "error"}
       THEN promptCount' = promptCount + 1
       ELSE UNCHANGED promptCount

\* new Float32Array(payload, 0, tokenProjFloats): the first floats of the payload.
\* The length is token_proj_size / 4, truncated by the constructor.
TokenProjView(payload, size) == SubSeq(payload, 1, size \div 4)

\* new Float32Array(payload, token_proj_size): the floats from that byte offset on.
DimProjView(payload, size) == SubSeq(payload, size \div 4 + 1, Len(payload))

\* The binary handler of useTerminal: a 4-byte tag, then float32 data.
\* Tag 0x01 replaces sliceData; tag 0x02 splits the payload at
\* projMeta.token_proj_size into tokenProj and dimProj. The typed-array
\* constructors throw a RangeError when the view does not fit the buffer or the
\* byte offset is not a multiple of 4; the exception leaves the handler.
BinaryHandler(data) ==
    IF Len(data) < 1
    THEN UNCHANGED <<sliceData, tokenProj, dimProj>>
    ELSE LET tag == data[1]
             payload == Tail(data)
         IN  CASE tag = 1 ->
                    /\ sliceData' = Some(payload)
                    /\ UNCHANGED <<tokenProj, dimProj>>
               [] tag = 2 ->
                    /\ UNCHANGED sliceData
                    /\ IF projMeta = None
                       THEN UNCHANGED <<tokenProj, dimProj>>
                       ELSE LET size == projMeta[1].token_proj_size
                            IN  IF size \div 4 > Len(payload)
                                THEN UNCHANGED <<tokenProj, dimProj>>
                                ELSE /\ tokenProj' = Some(TokenProjView(payload, size))
                                     /\ IF size % 4 # 0
                                        THEN UNCHANGED dimProj
                                        ELSE dimProj' = Some(DimProjView(payload, size))
               [] OTHER -> UNCHANGED <<sliceData, tokenProj, dimProj>>

\* The acknowledgments the client sends for one received binary message:
\* onmessage hands the buffer to the binary handlers and returns, and neither
\* writes to the socket.
AcksFor(data) == <<>>

\* The part of its response sequence the server has sent for the current run,
\* after one more JSON message: a run's response starts with activation.frame,
\* and activation.slices announces its slice data.
RunAfterJson(msg) ==
    CASE msg.type = "activation.frame" -> "frame"
      [] msg.type = "activation.slices" /\ run # "none" -> "slices"
      [] OTHER -> run

\* The same after a binary message: tag 0x01 carries the run's slice data.
RunAfterBinary(data) ==
    IF Len(data) >= 1 /\ data[1] = 1 /\ run # "none" THEN "slices" ELSE run

\* ws.onmessage with a text frame: JSON.parse, then every handler.
OnMessageJson(n, msg) ==
    /\ sockState[n] = "open"
    /\ msg.type \in {"inference.result", "error"} => promptCount < MaxPrompts
    /\ JsonHandler(msg)
    /\ run' = RunAfterJson(msg)
    /\ UNCHANGED <<sockState, onclose, ws, reconnectTimer, sent, sliceData, tokenProj,
                   dimProj, received, rxCount, lastFrame, batch, producerVars, playbackVars,
                   keyVars, storeVars, dispatchVars, upload>>

\* ws.onmessage with an ArrayBuffer: every binary handler, here chunk i of the
\* batch the server is streaming. Chunks may arrive in any order and repeatedly.
OnMessageBinary(n, i) ==
    /\ sockState[n] = "open"
    /\ rxCount < MaxRx
    /\ BinaryHandler(ChunkMessage(batch, i))
    /\ sent' = sent \o AcksFor(ChunkMessage(batch, i))
    /\ received' = received \cup {i}
    /\ rxCount' = rxCount + 1
    /\ lastFrame' = Some(ChunkMessage(batch, i))
    /\ run' = RunAfterBinary(ChunkMessage(batch, i))
    /\ UNCHANGED <<sockState, onclose, ws, reconnectTimer, blockHeat, numLayers,
                   sliceMeta, projMeta, batch, producerVars, playbackVars, uiVars>>

\* ws.onmessage with an ArrayBuffer of the tagged protocol: a frame of any
\* length and tag.
OnMessageFrame(n, data) ==
    /\ sockState[n] = "open"
    /\ rxCount < MaxRx
    /\ BinaryHandler(data)
    /\ sent' = sent \o AcksFor(data)
    /\ rxCount' = rxCount + 1
    /\ lastFrame' = Some(data)
    /\ run' = RunAfterBinary(data)
    /\ UNCHANGED <<sockState, onclose, ws, reconnectTimer, blockHeat, numLayers,
                   sliceMeta, projMeta, received, batch, producerVars, playbackVars, uiVars>>

----------------------------------------------------------------------------
(* components/viewport/ModelBlocks.tsx: what the viewport shows             *)

\* ModelBlocks: nothing without layers, the volumetric per-layer view when
\* slice data and metadata are in the store, else the flat-colour fallback
\* coloured from block_heat.
View ==
    IF numLayers = 0 THEN "none"
    ELSE IF sliceData # None /\ sliceMeta # None /\ sliceMeta[1].seq_len > 0
         THEN "volumetric"
         ELSE IF blockHeat # None THEN "fallback" ELSE "none"

\* The normalization behind the colours of a view: FallbackBlocks z-scores
\* block_heat in the browser; the slice textures are shown as the server
\* normalized them (percentile clipping p2-p98), the shader only clamps.
Transform(view) ==
    CASE view = "fallback" -> "zscore"
      [] view = "volumetric" -> "percentile"
      [] OTHER -> "none"

----------------------------------------------------------------------------
(* Chunk Transport, producer side (flow control).                          *)
(* IDLE -> SENDING(chunk) -> AWAITING_ACK(chunk) -> SENDING(next) -> IDLE  *)

\* The configured window: chunks that may be unacknowledged at one time.
Window == 1

NumChunks == ChunkCount(Len(batch.payload), batch.size)

\* With n chunks outstanding the producer suspends further sends: the window
\* is full.
MustAwaitMutant(n) == FALSE
MustAwait(n) == n >= Window

\* A timed-out chunk is resent only while the retry budget lasts.
CanRetryMutant == TRUE
CanRetry == retries < MaxRetries

\* A batch is handed to the transport.
StartBatch ==
    /\ chState = "IDLE" /\ pEvent = "none"
    /\ chState' = "SENDING"
    /\ pEvent' = "start"
    /\ UNCHANGED <<nextIdx, unacked, retries, wire, batch, frontendVars, playbackVars, uiVars>>

\* The producer sends the next chunk, then suspends when the window is full
\* or nothing is left to send.
SendChunk ==
    /\ chState = "SENDING"
    /\ nextIdx < NumChunks
    /\ wire' = Append(wire, nextIdx)
    /\ unacked' = Append(unacked, nextIdx)
    /\ nextIdx' = nextIdx + 1
    /\ chState' = IF MustAwait(Len(unacked')) \/ nextIdx' = NumChunks
                  THEN "AWAITING_ACK" ELSE "SENDING"
    /\ pEvent' = "send"
    /\ UNCHANGED <<retries, batch, frontendVars, playbackVars, uiVars>>

\* An Acknowledgment { batch_id } arrives: it carries the batch identifier only
\* and releases the oldest outstanding chunk.
AckArrives ==
    /\ chState \in {"SENDING", "AWAITING_ACK"}
    /\ unacked # <<>>
    /\ unacked' = Tail(unacked)
    /\ retries' = 0
    /\ chState' = IF nextIdx < NumChunks THEN "SENDING"
                  ELSE IF unacked' = <<>> THEN "IDLE" ELSE "AWAITING_ACK"
    /\ pEvent' = "ack"
    /\ UNCHANGED <<nextIdx, wire, batch, frontendVars, playbackVars, uiVars>>

\* The timeout elapses without the matching acknowledgment: the same chunk is
\* resent unchanged, up to the retry budget; then the batch fails (Timeout).
Timeout ==
    /\ chState = "AWAITING_ACK"
    /\ unacked # <<>>
    /\ IF CanRetry
       THEN /\ wire' = Append(wire, Head(unacked))
            /\ retries' = retries + 1
            /\ pEvent' = "resend"
            /\ UNCHANGED <<chState, unacked>>
       ELSE /\ chState' = "FAILED"
            /\ unacked' = <<>>
            /\ pEvent' = "fail"
            /\ UNCHANGED <<wire, retries>>
    /\ UNCHANGED <<nextIdx, batch, frontendVars, playbackVars, uiVars>>

\* The channel closes mid-batch: the partial Wire Batch is discarded.
ChannelClosed ==
    /\ chState \in {"SENDING", "AWAITING_ACK"}
    /\ chState' = "CLOSED"
    /\ unacked' = <<>>
    /\ pEvent' = "close"
    /\ UNCHANGED <<nextIdx, retries, wire, batch, frontendVars, playbackVars, uiVars>>

----------------------------------------------------------------------------
(* History Store: bounded collection of immutable per-step Records with    *)
(* FIFO eviction.                                                          *)

\* The Record of step k; its data stands for the step's raw arrays.
RecordOf(k) == [step |-> k, data |-> 100 + k]

\* append(record): inserting past capacity evicts the oldest record.
AppendRecordMutant(st, r) == Append(st, r)
AppendRecord(st, r) ==
    IF Len(st) >= Capacity THEN Append(Tail(st), r) ELSE Append(st, r)

Oldest == store[1].step
Newest == store[Len(store)].step

\* range(): the currently resident [oldest, newest] interval, None when empty.
Range == IF store = <<>> THEN None ELSE Some(<<Oldest, Newest>>)

Resident(step) == \E i \in 1..Len(store) : store[i].step = step

\* get(step): the Record, Expired when the step was evicted, NotFound when it
\* was never produced.
Get(step) ==
    IF Resident(step)
    THEN [status |-> "ok",
          record |-> store[CHOOSE i \in 1..Len(store) : store[i].step = step]]
    ELSE IF step >= 0 /\ step < produced
         THEN [status |-> "Expired", record |-> RecordOf(step)]
         ELSE [status |-> "NotFound", record |-> RecordOf(step)]

\* The Producer calls append(record) once per step.
HistoryAppend ==
    /\ produced < MaxSteps
    /\ store' = AppendRecord(store, RecordOf(produced))
    /\ produced' = produced + 1
    /\ lastOp' = [op |-> "append", arg |-> produced, from |-> pbState, at |-> cursor,
                  prev |-> lastOp.op]
    /\ txFrame' = None
    /\ UNCHANGED <<pbState, cursor, result, waitArmed, batch, frontendVars, producerVars, uiVars>>

----------------------------------------------------------------------------
(* Playback Engine: Idle, Playing(speed), Paused(step), Seeking.           *)
(* Control calls are atomic, so Seeking is never observed between steps.   *)

\* Whether a speed-derived wait is in flight once an operation has left the
\* engine in state st: the engine waits while it plays, and every operation
\* that leaves it in another state cancels the wait.
WaitAfterMutant(st) == TRUE
WaitAfter(st) == st = "Playing"

\* The state after a round of Playing that advanced the cursor to step next:
\* the engine halts on the newest resident step.
AdvanceStateMutant(next) == "Playing"
AdvanceState(next) == IF next = Newest THEN "Paused" ELSE "Playing"

SeekTargets == (0 - 1) .. MaxSteps

\* The typed error of a rejected seek: the target is outside the resident window.
SeekError(t) == IF t >= 0 /\ t < produced THEN "Expired" ELSE "OutOfRange"

\* The cursor after seek(t): the target when resident, else where it was.
SeekCursorMutant(t) == t
SeekCursor(t) == IF Resident(t) THEN t ELSE cursor

\* The state after seek(t) from state st: Paused(t) when resident, else st.
SeekState(t, st) == IF Resident(t) THEN "Paused" ELSE st

\* The state after step(delta): as seek, and paused if it was playing.
StepState(t, st) == IF st = "Playing" THEN "Paused" ELSE SeekState(t, st)

\* The result of step(delta) aiming at t.
StepResultMutant(t) == "ok"
StepResult(t) == IF Resident(t) THEN "ok" ELSE SeekError(t)

\* play(speed > 0) from Idle or Paused; from Idle the cursor starts on the
\* oldest resident step.
Play ==
    /\ pbState \in {"Idle", "Paused"}
    /\ store # <<>>
    /\ pbState' = "Playing"
    /\ cursor' = IF pbState = "Idle" THEN Oldest ELSE cursor
    /\ result' = "ok"
    /\ lastOp' = [op |-> "play", arg |-> 1, from |-> pbState, at |-> cursor,
                  prev |-> lastOp.op]
    /\ waitArmed' = WaitAfter(pbState')
    /\ txFrame' = None
    /\ UNCHANGED <<store, produced, batch, frontendVars, producerVars, uiVars>>

\* pause() from Playing: Paused(current step).
Pause ==
    /\ pbState = "Playing"
    /\ pbState' = "Paused"
    /\ result' = "ok"
    /\ lastOp' = [op |-> "pause", arg |-> 0, from |-> pbState, at |-> cursor,
                  prev |-> lastOp.op]
    /\ waitArmed' = WaitAfter(pbState')
    /\ txFrame' = None
    /\ UNCHANGED <<store, produced, cursor, batch, frontendVars, producerVars, uiVars>>

\* seek(step) from any state, validated against range().
Seek(t) ==
    /\ pbState' = SeekState(t, pbState)
    /\ cursor' = SeekCursor(t)
    /\ result' = IF Resident(t) THEN "ok" ELSE SeekError(t)
    /\ lastOp' = [op |-> "seek", arg |-> t, from |-> pbState, at |-> cursor,
                  prev |-> lastOp.op]
    /\ waitArmed' = WaitAfter(pbState')
    /\ txFrame' = None
    /\ UNCHANGED <<store, produced, batch, frontendVars, producerVars, uiVars>>

\* step(+1 / -1): target = current + delta, then as seek.
Step(delta) ==
    LET t == cursor + delta
    IN  /\ pbState' = StepState(t, pbState)
        /\ cursor' = SeekCursor(t)
        /\ result' = StepResult(t)
        /\ lastOp' = [op |-> "step", arg |-> delta, from |-> pbState, at |-> cursor,
                      prev |-> IF lastOp.op = "seek" /\ result = "ok"
                               THEN "seek-ok" ELSE lastOp.op]
        /\ waitArmed' = WaitAfter(pbState')
        /\ txFrame' = None
        /\ UNCHANGED <<store, produced, batch, frontendVars, producerVars, uiVars>>

\* One round of Playing: the speed-derived wait elapses, the engine reads the
\* next step, queues its frame onto the Transport and advances, and halts on
\* the newest resident step; a next step that has been evicted surfaces Expired
\* and halts the engine.
Advance ==
    /\ waitArmed
    /\ IF store = <<>> \/ cursor >= Newest
       THEN /\ pbState' = "Paused"
            /\ txFrame' = None
            /\ UNCHANGED <<cursor, result>>
       ELSE IF Get(cursor + 1).status = "ok"
            THEN /\ cursor' = cursor + 1
                 /\ txFrame' = Some(Get(cursor + 1).record.step)
                 /\ pbState' = AdvanceState(cursor + 1)
                 /\ UNCHANGED result
            ELSE /\ pbState' = "Paused"
                 /\ txFrame' = None
                 /\ result' = Get(cursor + 1).status
                 /\ UNCHANGED cursor
    /\ waitArmed' = WaitAfter(pbState')
    /\ lastOp' = [op |-> "advance", arg |-> 0, from |-> pbState, at |-> cursor,
                  prev |-> lastOp.op]
    /\ UNCHANGED <<store, produced, batch, frontendVars, producerVars, uiVars>>

----------------------------------------------------------------------------
(* Slice names, the slice command and the slice plane.                     *)
(* Depths are in thousandths: 0.3 is 300, 0.075 is 75.                     *)

\* activationStore.ts: SLICE_INDEX.
SLICE_INDEX ==
    [name \in {"resid_pre", "attn_out", "delta_attn", "mlp_out", "delta_mlp", "resid_post"} |->
        CASE name = "resid_pre" -> 0
          [] name = "attn_out" -> 1
          [] name = "delta_attn" -> 2
          [] name = "mlp_out" -> 3
          [] name = "delta_mlp" -> 4
          [] name = "resid_post" -> 5]

\* commandParser: SLICE_DEPTH_MAP, named slice -> depth.
SLICE_DEPTH_MAP ==
    [name \in {"auto", "resid_pre", "attn", "attn_out", "delta_attn", "mlp", "mlp_out",
               "delta_mlp", "resid_post"} |->
        CASE name = "auto" -> None
          [] name = "resid_pre" -> Some(0)
          [] name = "attn" -> Some(300)
          [] name = "attn_out" -> Some(300)
          [] name = "delta_attn" -> Some(470)
          [] name = "mlp" -> Some(700)
          [] name = "mlp_out" -> Some(700)
          [] name = "delta_mlp" -> Some(920)
          [] name = "resid_post" -> Some(1000)]

\* SlicePlane: depthToSliceIndex, the slice whose data the plane uploads.
depthToSliceIndex(depth) ==
    IF depth < 75 THEN 0
    ELSE IF depth < 300 THEN 1
    ELSE IF depth < 475 THEN 2
    ELSE IF depth < 550 THEN 3
    ELSE IF depth < 925 THEN 4
    ELSE 5

\* Math.max(0, Math.min(1, depth)).
ClampDepth(depth) == IF depth < 0 THEN 0 ELSE IF depth > 1000 THEN 1000 ELSE depth

\* A parsed command: its kind, the word and the number of its argument, and
\* for slice the depth.
Command(kind, name, num, depth) ==
    [kind |-> kind, name |-> name, num |-> num, depth |-> depth]

\* parseCommand, case 'slice': a named slice first, then a numeric depth
\* clamped to [0, 1]. An argument is a word (name) or, with name "", a number.
ParseSlice(arg) ==
    IF arg.name # ""
    THEN IF arg.name \in DOMAIN SLICE_DEPTH_MAP
         THEN Command("slice", arg.name, 0, SLICE_DEPTH_MAP[arg.name])
         ELSE Command("error", arg.name, 0, None)
    ELSE Command("slice", "", arg.num, Some(ClampDepth(arg.num)))

\* The largest layer index parseCommand accepts.
MaxLayerIndex == 27

\* parseCommand, case 'get': get layer <N> with N in 0..27.
ParseGet(n) ==
    IF n < 0 \/ n > MaxLayerIndex
    THEN Command("error", "layer", n, None)
    ELSE Command("get", "layer", n, None)

\* parseCommand, case 'release': release, or release layer <N>.
ParseRelease(arg) ==
    IF arg.name = "" THEN Command("release", "", 0, None)
    ELSE IF arg.num < 0 \/ arg.num > MaxLayerIndex
         THEN Command("error", "layer", arg.num, None)
         ELSE Command("release", "layer", arg.num, None)

\* parseCommand, case 'contrast': parseFloat of the argument, NaN (a word) is
\* an error; the number is passed on as parsed.
ParseContrast(arg) ==
    IF arg.name # "" THEN Command("error", "contrast", 0, None)
    ELSE Command("contrast", "", arg.num, None)

----------------------------------------------------------------------------
(* The model store, and what the REST API answers to a load.               *)

\* api.loadModel(modelName): the adapter id of the model of that name.
AdapterId(name) == [adapter |-> name]

\* api.getModelInfo(adapterId): the ModelInfo of that adapter.
ModelInfo(id) == [display_name |-> id.adapter]

\* setLoading(modelName): status and modelName only.
setLoading(name) ==
    /\ modelStatus' = "loading"
    /\ modelName' = Some(name)
    /\ UNCHANGED <<modelId, metadata>>

\* setModel(modelId, modelName, metadata).
setModel(id, name, info) ==
    /\ modelStatus' = "loaded"
    /\ modelId' = Some(id)
    /\ modelName' = Some(name)
    /\ metadata' = Some(info)

\* setError(): the status only.
setError ==
    /\ modelStatus' = "error"
    /\ UNCHANGED <<modelId, modelName, metadata>>

\* getPrompt(): the model the prompt names, null for the bare prompt.
PromptModel == modelId

\* getModelInfo: the model whose info the `info` command requests.
InfoModel == modelId

----------------------------------------------------------------------------
(* The viewport store (isolated layers, slice depth, gamma).               *)

\* The most layers that may be isolated at one time.
IsolateMax == 4

Includes(layers, layer) == \E k \in 1..Len(layers) : layers[k] = layer

\* isolateLayer(layer): appends unless four are isolated or it already is.
isolateLayerMutant(layers, layer) == Append(layers, layer)
isolateLayer(layers, layer) ==
    IF Len(layers) >= IsolateMax \/ Includes(layers, layer)
    THEN layers
    ELSE Append(layers, layer)

\* releaseLayer(layer): null empties the list, else the layer is filtered out.
releaseLayer(layers, layer) ==
    IF layer = None THEN <<>>
    ELSE SelectSeq(layers, LAMBDA l : l # layer[1])

\* setSliceDepth(depth): clamped to [0, 1], null turns the plane off.
setSliceDepth(depth) == IF depth # None THEN Some(ClampDepth(depth[1])) ELSE None

\* Gamma is in tenths: 0.1 is 1, 10 is 100.
\* setGamma(gamma): Math.max(0.1, Math.min(10, gamma)).
setGamma(g) == IF g < 1 THEN 1 ELSE IF g > 100 THEN 100 ELSE g

\* A line written to the terminal: its text and the number it shows.
Line(text, num) == Some([text |-> text, num |-> num])

----------------------------------------------------------------------------
(* commandDispatcher: dispatchCommand, and the commands it calls.          *)

\* wsService.send as dispatchCommand uses it: written when the current socket
\* is OPEN, dropped otherwise.
SendOrDrop(msg) ==
    IF ws # 0 /\ sockState[ws] = "open" THEN Append(sent, msg) ELSE sent

\* dispatchCommand(command, writeLine) up to its first await: the store calls
\* it makes and the line it writes.
DispatchBody(cmd) ==
    /\ lastCmd' = cmd
    /\ sent' = IF cmd.kind = "run" THEN SendOrDrop([type |-> "inference.run"]) ELSE sent
    /\ IF cmd.kind = "load" THEN setLoading(cmd.name) ELSE UNCHANGED modelVars
    /\ gamma' = IF cmd.kind = "contrast" THEN setGamma(cmd.num) ELSE gamma
    /\ sliceDepth' = IF cmd.kind = "slice" THEN setSliceDepth(cmd.depth) ELSE sliceDepth
    /\ isolatedLayers' =
            CASE cmd.kind = "get" ->
                    IF Len(isolatedLayers) >= IsolateMax \/ Includes(isolatedLayers, cmd.num)
                    THEN isolatedLayers
                    ELSE isolateLayer(isolatedLayers, cmd.num)
              [] cmd.kind = "release" ->
                    releaseLayer(isolatedLayers,
                                 IF cmd.name = "" THEN None ELSE Some(cmd.num))
              [] OTHER -> isolatedLayers
    /\ cmdOut' =
            CASE cmd.kind = "load" -> Line("Loading", 0)
              [] cmd.kind = "run" -> None
              [] cmd.kind = "info" ->
                    IF InfoModel = None THEN Line("No model loaded", 0) ELSE None
              [] cmd.kind = "help" -> Line("Commands", 0)
              [] cmd.kind = "contrast" -> Line("Contrast set to", cmd.num)
              [] cmd.kind = "slice" ->
                    IF cmd.depth = None THEN Line("Slice plane off", 0)
                    ELSE Line("Slice depth set to", cmd.depth[1])
              [] cmd.kind = "get" ->
                    IF Len(isolatedLayers) >= IsolateMax
                    THEN Line("Max 4 isolated layers", 0)
                    ELSE IF Includes(isolatedLayers, cmd.num)
                         THEN Line("already isolated", cmd.num)
                         ELSE Line("Isolated L", cmd.num)
              [] cmd.kind = "release" ->
                    IF cmd.name = "" THEN Line("Released all isolated layers", 0)
                    ELSE Line("Released L", cmd.num)
              [] cmd.kind = "error" -> Line("error", cmd.num)
              [] OTHER -> Line("Unknown command", 0)

\* The commands that await the REST API before they settle.
Awaits(cmd) == cmd.kind = "load" \/ (cmd.kind = "info" /\ InfoModel # None)

\* dispatchCommand called with a parsed command.
DispatchCommand(cmd) ==
    /\ cmd.kind = "run" => Len(sent) < MaxSent
    /\ ~Awaits(cmd)
    /\ DispatchBody(cmd)
    /\ UNCHANGED <<sockState, onclose, ws, reconnectTimer, blockHeat, numLayers,
                   sliceData, sliceMeta, tokenProj, dimProj, projMeta, received, rxCount, lastFrame,
                   run, batch, producerVars, playbackVars, terminalVars, upload>>

\* isolateLayer(layer) called on the store directly.
CallIsolateLayer(layer) ==
    /\ isolatedLayers' = isolateLayer(isolatedLayers, layer)
    /\ lastCmd' = Command("isolateLayer", "", layer, None)
    /\ cmdOut' = None
    /\ UNCHANGED <<frontendVars, batch, producerVars, playbackVars, terminalVars,
                   modelVars, sliceDepth, gamma, upload>>

\* releaseLayer(layer) called on the store directly.
CallReleaseLayer(layer) ==
    /\ isolatedLayers' = releaseLayer(isolatedLayers, layer)
    /\ lastCmd' = Command("releaseLayer", "", IF layer = None THEN 0 ELSE layer[1], None)
    /\ cmdOut' = None
    /\ UNCHANGED <<frontendVars, batch, producerVars, playbackVars, terminalVars,
                   modelVars, sliceDepth, gamma, upload>>

----------------------------------------------------------------------------
(* useTerminal: term.onKey; App: the backtick handler; useArrowPan.        *)

\* The printable keys: a letter, the space and the backtick.
Printable == {"c", " ", "Backquote"}
ARROW_KEYS == {"ArrowUp", "ArrowDown"}
Keys == Printable \cup ARROW_KEYS \cup {"Enter", "Backspace"}

\* The command a key press dispatches when none is parsed.
NoCommand == Command("empty", "", 0, None)

\* String.prototype.trim(): the line without its leading and trailing spaces.
RECURSIVE TrimStart(_)
TrimStart(s) == IF s # <<>> /\ Head(s) = " " THEN TrimStart(Tail(s)) ELSE s

RECURSIVE TrimEnd(_)
TrimEnd(s) ==
    IF s # <<>> /\ s[Len(s)] = " " THEN TrimEnd(SubSeq(s, 1, Len(s) - 1)) ELSE s

Trim(s) == TrimEnd(TrimStart(s))

\* terminalStore.addToHistory(cmd).
addToHistory(h, cmd) == Append(h, cmd)

\* Up arrow: from -1 to the newest entry, else one older, staying on entry 0.
HistoryUpMutant(idx, len) ==
    IF idx = 0 - 1 THEN len - 1 ELSE IF idx > 0 THEN idx - 1 ELSE len - 1
HistoryUp(idx, len) ==
    IF idx = 0 - 1 THEN len - 1 ELSE IF idx > 0 THEN idx - 1 ELSE idx

\* term.onKey({ key, domEvent }). The words of the line are not spelled out: a
\* line that is not blank parses to the command cmd. The promise of
\* dispatchCommand settles at once unless the command awaits the REST API;
\* its finally clears busyRef and, except for run, writes the prompt.
TermOnKey(key, cmd) ==
    IF busy /\ key # "c"
    THEN UNCHANGED <<inputBuffer, history, historyIndex, busy, promptCount, sent,
                     storeVars, dispatchVars>>
    ELSE CASE key = "Enter" ->
                /\ inputBuffer' = <<>>
                /\ historyIndex' = 0 - 1
                /\ history' = IF Trim(inputBuffer) # <<>>
                               THEN addToHistory(history, inputBuffer)
                               ELSE history
                /\ IF Trim(inputBuffer) = <<>>
                   THEN /\ promptCount' = 1
                        /\ UNCHANGED <<busy, sent, storeVars, dispatchVars>>
                   ELSE /\ DispatchBody(cmd)
                        /\ busy' = Awaits(cmd)
                        /\ promptCount' = IF cmd.kind = "run" \/ Awaits(cmd) THEN 0 ELSE 1
           [] key = "Backspace" ->
                /\ inputBuffer' = IF Len(inputBuffer) > 0
                                   THEN SubSeq(inputBuffer, 1, Len(inputBuffer) - 1)
                                   ELSE inputBuffer
                /\ UNCHANGED <<history, historyIndex, busy, promptCount, sent, storeVars,
                               dispatchVars>>
           [] key = "ArrowUp" ->
                /\ IF history = <<>>
                   THEN UNCHANGED <<inputBuffer, historyIndex>>
                   ELSE /\ historyIndex' = HistoryUp(historyIndex, Len(history))
                        /\ inputBuffer' = history[historyIndex' + 1]
                /\ UNCHANGED <<history, busy, promptCount, sent, storeVars, dispatchVars>>
           [] key = "ArrowDown" ->
                /\ IF historyIndex = 0 - 1
                   THEN UNCHANGED <<inputBuffer, historyIndex>>
                   ELSE IF historyIndex < Len(history) - 1
                        THEN /\ historyIndex' = historyIndex + 1
                             /\ inputBuffer' = history[historyIndex' + 1]
                        ELSE /\ historyIndex' = 0 - 1
                             /\ inputBuffer' = <<>>
                /\ UNCHANGED <<history, busy, promptCount, sent, storeVars, dispatchVars>>
           [] OTHER ->
                /\ inputBuffer' = Append(inputBuffer, key)
                /\ UNCHANGED <<history, historyIndex, busy, promptCount, sent, storeVars,
                               dispatchVars>>

\* A key is pressed. The browser delivers keydown to the element that has the
\* keyboard focus and then to the window: xterm's onKey runs when the focus is
\* in the terminal; the window listeners of App (backtick: toggleFocus) and of
\* useArrowPan (arrow keys, unless the target is inside .xterm) always run.
KeyPress(key, cmd) ==
    /\ (domFocus = "terminal" /\ key \in Printable /\ (~busy \/ key = "c"))
            => Len(inputBuffer) < MaxInput
    /\ (domFocus = "terminal" /\ key = "Enter" /\ ~busy /\ Trim(inputBuffer) # <<>>)
            => (Len(history) < MaxHistory /\ cmd # NoCommand
                /\ (cmd.kind = "run" => Len(sent) < MaxSent))
    /\ IF domFocus = "terminal"
       THEN TermOnKey(key, cmd)
       ELSE UNCHANGED <<inputBuffer, history, historyIndex, busy, promptCount, sent,
                        storeVars, dispatchVars>>
    /\ isFocused' = IF key = "Backquote" THEN ~isFocused ELSE isFocused
    /\ lastKey' = key
    /\ pressed' = IF key \in ARROW_KEYS /\ domFocus # "terminal"
                  THEN pressed \cup {key} ELSE pressed
    /\ UNCHANGED <<sockState, onclose, ws, reconnectTimer, blockHeat, numLayers,
                   sliceData, sliceMeta, tokenProj, dimProj, projMeta, received, rxCount, lastFrame,
                   run, batch, producerVars, playbackVars, domFocus, upload>>

\* A held arrow key is released: useArrowPan.onKeyUp.
KeyUp(key) ==
    /\ key \in pressed
    /\ pressed' = pressed \ {key}
    /\ lastKey' = "none"
    /\ UNCHANGED <<frontendVars, batch, producerVars, playbackVars, inputBuffer, history,
                   historyIndex, busy, isFocused, domFocus, promptCount, storeVars,
                   dispatchVars, upload>>

\* The user clicks into the terminal or into the viewport: the browser moves
\* the keyboard focus. No code of the application moves it.
FocusDom(where) ==
    /\ domFocus # where
    /\ domFocus' = where
    /\ lastKey' = "none"
    /\ UNCHANGED <<frontendVars, batch, producerVars, playbackVars, inputBuffer, history,
                   historyIndex, busy, isFocused, pressed, promptCount, storeVars,
                   dispatchVars, upload>>

\* loadModel after its awaits: both REST calls succeeded (setModel with the
\* adapter id, the name given to load and the model's info) or one failed
\* (setError); then dispatchCommand's promise settles: busyRef is cleared and
\* the prompt is written.
LoadSettles(ok) ==
    /\ busy /\ lastCmd.kind = "load"
    /\ IF ok
       THEN setModel(AdapterId(lastCmd.name), lastCmd.name,
                     ModelInfo(AdapterId(lastCmd.name)))
       ELSE setError
    /\ cmdOut' = IF ok THEN Line("loaded", 0) ELSE Line("Error", 0)
    /\ busy' = FALSE
    /\ promptCount' = 1
    /\ lastKey' = "none"
    /\ UNCHANGED <<frontendVars, batch, producerVars, playbackVars, inputBuffer, history,
                   historyIndex, isFocused, domFocus, pressed, isolatedLayers, sliceDepth,
                   gamma, lastCmd, upload>>

\* getModelInfo after its await: the info lines or the error line; then the
\* promise settles as for load. No command can be entered in between, so the
\* model id read before the await is still the store's.
InfoSettles(ok) ==
    /\ busy /\ lastCmd.kind = "info"
    /\ cmdOut' = IF ok THEN Line("Model", 0) ELSE Line("Error", 0)
    /\ busy' = FALSE
    /\ promptCount' = 1
    /\ lastKey' = "none"
    /\ UNCHANGED <<frontendVars, batch, producerVars, playbackVars, inputBuffer, history,
                   historyIndex, isFocused, domFocus, pressed, storeVars, lastCmd, upload>>

----------------------------------------------------------------------------
(* The slice buffer and the textures filled from it.                       *)

\* activationStore.ts: SLICE_NAMES and NUM_SLICES = SLICE_NAMES.length.
SLICE_NAMES == <<"resid_pre", "attn_out", "delta_attn", "mlp_out", "delta_mlp", "resid_post">>
NUM_SLICES == Len(SLICE_NAMES)

\* getSliceOffset(layer, sliceIdx, seqLen, dModel): the first float of a slice.
getSliceOffsetMutant(layer, sliceIdx, seqLen, dModel) ==
    (layer + sliceIdx * NUM_SLICES) * seqLen * dModel
getSliceOffset(layer, sliceIdx, seqLen, dModel) ==
    (layer * NUM_SLICES + sliceIdx) * seqLen * dModel

\* Float32Array.subarray(begin, end): the floats begin .. end-1 (0-based), both
\* ends clamped to the length of the array.
Subarray(arr, begin, end) == SubSeq(arr, Min(begin, Len(arr)) + 1, Min(end, Len(arr)))

\* The slice upload of VolumetricBlocks and of SlicePlane: one slice of one
\* layer is copied from sliceData into the layer's texture.
UploadSlice(layer, sliceIdx) ==
    /\ sliceData # None /\ sliceMeta # None
    /\ layer < numLayers
    /\ LET seq_len == sliceMeta[1].seq_len
           d_model == sliceMeta[1].d_model
           sliceSize == seq_len * d_model
           offset == getSliceOffset(layer, sliceIdx, seq_len, d_model)
       IN  upload' = Some([layer |-> layer, slice |-> sliceIdx, offset |-> offset,
                           data |-> Subarray(sliceData[1], offset, offset + sliceSize)])
    /\ UNCHANGED <<frontendVars, batch, producerVars, playbackVars, terminalVars,
                   storeVars, dispatchVars>>

----------------------------------------------------------------------------
(* Initial values of the three parts *)

InitFrontend ==
    /\ sockState = [n \in Sockets |-> "unused"]
    /\ onclose = [n \in Sockets |-> FALSE]
    /\ ws = 0
    /\ reconnectTimer = FALSE
    /\ sent = <<>>
    /\ blockHeat = None
    /\ numLayers = 0
    /\ sliceData = None
    /\ sliceMeta = None
    /\ tokenProj = None
    /\ dimProj = None
    /\ projMeta = None
    /\ received = {}
    /\ rxCount = 0
    /\ lastFrame = None
    /\ run = "none"

InitProducer ==
    /\ chState = "IDLE"
    /\ nextIdx = 0
    /\ unacked = <<>>
    /\ retries = 0
    /\ wire = <<>>
    /\ pEvent = "none"

InitUi ==
    /\ inputBuffer = <<>>
    /\ history = <<>>
    /\ historyIndex = 0 - 1
    /\ busy = FALSE
    /\ isFocused = TRUE
    /\ domFocus = "viewport"
    /\ pressed = {}
    /\ lastKey = "none"
    /\ modelStatus = "idle"
    /\ isolatedLayers = <<>>
    /\ promptCount = 1
    /\ modelId = None
    /\ modelName = None
    /\ metadata = None
    /\ gamma = 30
    /\ sliceDepth = None
    /\ lastCmd = Command("none", "", 0, None)
    /\ cmdOut = None
    /\ upload = None

InitPlayback ==
    /\ store = <<>>
    /\ produced = 0
    /\ pbState = "Idle"
    /\ cursor = 0
    /\ result = "none"
    /\ lastOp = [op |-> "none", arg |-> 0, from |-> "Idle", at |-> 0, prev |-> "none"]
    /\ waitArmed = FALSE
    /\ txFrame = None

----------------------------------------------------------------------------
(* Spec: the browser side *)

Init ==
    /\ InitFrontend
    /\ batch \in Batches
    /\ InitProducer
    /\ InitPlayback
    /\ InitUi

Next ==
    \/ Connect
    \/ \E n \in Sockets : SocketOpen(n)
    \/ \E n \in Sockets : SocketClose(n)
    \/ ReconnectFire
    \/ Disconnect
    \/ SendRun
    \/ \E n \in Sockets, msg \in JsonMessages : OnMessageJson(n, msg)
    \/ \E n \in Sockets, i \in ChunkIndices(batch) : OnMessageBinary(n, i)

Spec == Init /\ [][Next]_vars

----------------------------------------------------------------------------
(* Claims about the browser side (Spec) *)

\* Number of acknowledgments among the messages the client sent.
AcksSent == Cardinality({k \in 1..Len(sent) : sent[k].type = "ack"})

\* The chunk byte ranges received so far cover the whole declared payload.
Covered == received = ChunkIndices(batch)

\* C2: the consumer acknowledges every chunk it receives: once the handler of a
\* received binary chunk has run, an acknowledgment for the batch has been sent
\* to the producer for each chunk handled.
C2_AckPerChunk == AcksSent >= rxCount

\* C3: round trip: once every chunk of the batch has arrived, in whatever
\* order, the buffer handed to the renderer is the serialized payload.
C3_RoundTrip == Covered => sliceData = Some(batch.payload)

\* C4: idempotent resend: receiving a chunk that was already received leaves
\* the consumer's buffers as they were.
C4_IdempotentResend ==
    [][(rxCount' = rxCount + 1 /\ received' = received)
            => UNCHANGED sliceData]_vars

\* C5: no partial exposure: a buffer is handed to the renderer only when the
\* received chunks cover the declared payload length; a batch cut short by a
\* closed channel is never delivered.
C5_NoPartialExposure ==
    (sliceData # None \/ tokenProj # None \/ dimProj # None) => Covered

\* C13: the normalization transforms are never mixed within a session: once
\* the viewport shows a run's data under one transform, whatever the session
\* receives next of that run is shown under the same transform.
C13_OneTransform ==
    [][(run = "slices" /\ View # "none" /\ View' # "none")
            => Transform(View') = Transform(View)]_vars

\* C14: the consumer decodes every binary message by its 16-byte ChunkHeader:
\* what it keeps of a message is the part after the four header words of one
\* of the batch's chunk messages.
C14_HeaderDecoded ==
    sliceData # None =>
        \E i \in ChunkIndices(batch) :
            sliceData[1] = SubSeq(ChunkMessage(batch, i), 5, Len(ChunkMessage(batch, i)))

\* C17: a run for which the server sent only activation.frame is shown with
\* the fallback view of that run's block_heat, also when the run before it
\* sent slice data.
C17_FallbackForFrameOnlyRun ==
    [][(run = "slices" /\ run' = "frame")
            => (View' = "fallback" /\ blockHeat' # None)]_vars

\* A socket whose onmessage and onclose handlers can still run: the browser
\* delivers message events only while the socket is OPEN, and a socket that
\* is connecting can still open.
Live(n) == sockState[n] \in {"connecting", "open"}

\* C24: at most one WebSocket created by the service has live handlers, under
\* any interleaving of connect(), disconnect(), close events and timer
\* firings, and a socket with an onclose handler is the current one.
C24_OneLiveSocket ==
    /\ Cardinality({n \in Sockets : Live(n)}) <= 1
    /\ \A n \in Sockets : (Live(n) /\ onclose[n]) => ws = n

\* C25: disconnect() is final: while the service holds no socket, no reconnect
\* timer is pending, no socket is created, and no event of an earlier socket
\* reaches a handler or arms the timer.
C25_DisconnectFinal ==
    /\ [](ws = 0 => ~reconnectTimer)
    /\ [][(ws = 0 /\ ws' = 0) =>
            /\ \A n \in Sockets : sockState[n] = "unused" => sockState'[n] = "unused"
            /\ rxCount' = rxCount
            /\ promptCount' = promptCount
            /\ UNCHANGED <<blockHeat, numLayers, sliceData, sliceMeta, tokenProj,
                           dimProj, projMeta>>]_vars

----------------------------------------------------------------------------
(* SpecReconnect: the WebSocketService with text frames only, and with its  *)
(* reconnect timer: a pending timer eventually fires.                       *)

InitR ==
    /\ InitFrontend
    /\ batch = [id |-> 1, payload |-> <<10>>, size |-> 1]
    /\ InitProducer
    /\ InitPlayback
    /\ InitUi

NextR ==
    \/ Connect
    \/ \E n \in Sockets : SocketOpen(n)
    \/ \E n \in Sockets : SocketClose(n)
    \/ ReconnectFire
    \/ Disconnect
    \/ SendRun
    \/ \E n \in Sockets, msg \in JsonMessages : OnMessageJson(n, msg)

SpecReconnect == InitR /\ [][NextR]_vars /\ WF_vars(ReconnectFire)

\* The service holds a socket that is connecting or open.
Attempting == ws # 0 /\ sockState[ws] \in {"connecting", "open"}

\* The service holds a socket that has closed.
ClosedUnderService == ws # 0 /\ sockState[ws] = "closed"

\* C16: auto-reconnect: a socket that closes with its onclose handler
\* installed arms the reconnect timer; when the timer fires the service holds
\* a socket that is connecting or open; so while disconnect() has not dropped
\* the socket, the service is attempting a connection or its timer is pending,
\* and a close is eventually followed by a connection attempt.
C16_AutoReconnect ==
    /\ [](ws # 0 => (Attempting \/ reconnectTimer))
    /\ [][/\ \A n \in Sockets :
                (sockState[n] # "closed" /\ sockState'[n] = "closed" /\ onclose[n])
                    => reconnectTimer'
          /\ (reconnectTimer /\ ~reconnectTimer' /\ ws' # 0)
                    => sockState'[ws'] \in {"connecting", "open"}]_vars
    /\ (ClosedUnderService /\ FreeSockets # {}) ~> (ws = 0 \/ Attempting)

\* C16 witness: the first socket closed under the service, and the service is
\* connecting the next one with no timer left pending.
C16_Witness ==
    /\ sockState[1] = "closed" /\ onclose[1]
    /\ ws = 2 /\ sockState[2] = "connecting" /\ ~reconnectTimer

----------------------------------------------------------------------------
(* SpecProducer: the producing side of the chunk transport, against any    *)
(* sequence of acknowledgment arrivals, losses (timeouts) and closes.      *)

InitP ==
    /\ InitFrontend
    /\ batch \in Batches
    /\ InitProducer
    /\ InitPlayback
    /\ InitUi

NextP ==
    \/ StartBatch
    \/ SendChunk
    \/ AckArrives
    \/ Timeout
    \/ ChannelClosed

SpecProducer == InitP /\ [][NextP]_vars

\* C1: backpressure: the chunks sent and not yet acknowledged never exceed the
\* configured window, whatever the acknowledgment delays and drops.
C1_Backpressure == Len(unacked) <= Window

\* C1 witness: the window is full after an acknowledgment was dropped (the
\* chunk has been resent) and after an earlier chunk was acknowledged.
C1_Witness == Len(unacked) = Window /\ retries > 0 /\ nextIdx > Window

\* C6: while the window is full the only transmission is the resend, on
\* timeout, of the oldest unacknowledged chunk, unchanged; resends of one chunk
\* never exceed the retry budget, and a timeout with the budget spent fails the
\* batch without sending anything.
C6_TimeoutBoundedResend ==
    [][/\ (wire' # wire /\ Len(unacked) >= Window)
            => /\ pEvent' = "resend"
               /\ wire' = Append(wire, Head(unacked))
               /\ unacked' = unacked
       /\ pEvent' = "resend" => /\ wire' = Append(wire, Head(unacked))
                                /\ retries' = retries + 1
       /\ retries' <= MaxRetries
       /\ (pEvent' \in {"resend", "fail"} /\ retries = MaxRetries)
            => (chState' = "FAILED" /\ wire' = wire)]_vars

\* C6 witness: the batch has failed after the retry budget was spent on one chunk.
C6_Witness == chState = "FAILED" /\ retries = MaxRetries /\ Len(wire) > MaxRetries

\* Length of chunk i of a payload split with chunk size S.
ChunkLen(payload, S, i) == Len(ChunkBytes(payload, S, i))

\* Sum of the lengths of the first n chunks.
RECURSIVE SumChunkLens(_, _, _)
SumChunkLens(payload, S, n) ==
    IF n = 0 THEN 0
    ELSE SumChunkLens(payload, S, n - 1) + ChunkLen(payload, S, n - 1)

\* The chunk lengths of a payload, in order.
ChunkLens(payload, S) ==
    [k \in 1..ChunkCount(Len(payload), S) |-> ChunkLen(payload, S, k - 1)]

\* C15: chunking arithmetic: the batch is split into ceil(P / S) chunks, every
\* chunk but the last has exactly S units, the last has P - (n - 1) * S, which
\* is between 1 and S, each chunk starts at offset i * S and the lengths sum to
\* P; chunk size 64 splits a payload of 200 into lengths 64, 64, 64, 8.
C15_ChunkArithmetic ==
    LET P == Len(batch.payload)
        S == batch.size
        n == NumChunks
    IN  /\ n * S >= P /\ (n - 1) * S < P
        /\ \A i \in 0..(n - 2) : ChunkLen(batch.payload, S, i) = S
        /\ ChunkLen(batch.payload, S, n - 1) = P - (n - 1) * S
        /\ ChunkLen(batch.payload, S, n - 1) \in 1..S
        /\ \A i \in ChunkIndices(batch) :
                /\ ChunkMessage(batch, i)[3] = n
                /\ ChunkMessage(batch, i)[4] = i * S
        /\ SumChunkLens(batch.payload, S, n) = P
        /\ \A k \in 1..Len(wire) : wire[k] \in 0..(n - 1)
        /\ ChunkCount(200, 64) = 4
        /\ ChunkLens([k \in 1..200 |-> 10], 64) = <<64, 64, 64, 8>>
        /\ SumChunkLens([k \in 1..200 |-> 10], 64, 4) = 200

\* C15 witness: every chunk of a batch whose last chunk is short has been sent.
C15_Witness ==
    /\ NumChunks > 1 /\ nextIdx = NumChunks /\ Len(wire) >= NumChunks
    /\ ChunkLen(batch.payload, batch.size, NumChunks - 1) < batch.size

----------------------------------------------------------------------------
(* SpecPlayback: the History Store and one session's Playback Engine.      *)

InitH ==
    /\ InitFrontend
    /\ batch = [id |-> 1, payload |-> <<10>>, size |-> 1]
    /\ InitProducer
    /\ InitPlayback
    /\ InitUi

NextH ==
    \/ HistoryAppend
    \/ Play
    \/ Pause
    \/ \E t \in SeekTargets : Seek(t)
    \/ \E d \in {0 - 1, 1} : Step(d)
    \/ Advance

SpecPlayback == InitH /\ [][NextH]_vars

\* C7: eviction: the store never holds more than Capacity records; once
\* steps 0..k with k >= Capacity - 1 have been appended, range() is
\* [k - Capacity + 1, k], get() of every earlier step is Expired and get() of
\* every resident step returns that step's record as it was appended.
C7_Eviction ==
    /\ Len(store) <= Capacity
    /\ produced >= Capacity =>
        /\ Range = Some(<<produced - Capacity, produced - 1>>)
        /\ \A k \in 0..(produced - Capacity - 1) : Get(k).status = "Expired"
        /\ \A k \in (produced - Capacity)..(produced - 1) :
                Get(k) = [status |-> "ok", record |-> RecordOf(k)]

\* C7 witness: two records have been evicted and the oldest resident one read.
C7_Witness ==
    /\ produced = Capacity + 2
    /\ Range = Some(<<2, Capacity + 1>>)
    /\ Get(1).status = "Expired"
    /\ Get(3).record.step = 3

\* C8: the Playback Cursor of a session that has positioned it (Paused or
\* Playing) is on a resident step, whatever appends interleave.
C8_CursorResident == pbState \in {"Paused", "Playing"} => Resident(cursor)

\* C9: seek(step) moves to Paused(step) when the step is resident; otherwise it
\* returns OutOfRange or Expired and leaves state and cursor as they were.
C9_Seek ==
    [][lastOp'.op = "seek" =>
        IF Resident(lastOp'.arg)
        THEN pbState' = "Paused" /\ cursor' = lastOp'.arg /\ result' = "ok"
        ELSE /\ result' \in {"OutOfRange", "Expired"}
             /\ pbState' = pbState
             /\ cursor' = cursor]_vars

\* C9 witness: a seek was rejected while playing and the engine still plays
\* from the step it was on.
C9_Witness ==
    /\ lastOp.op = "seek"
    /\ result \in {"OutOfRange", "Expired"}
    /\ lastOp.from = "Playing" /\ pbState = "Playing"
    /\ cursor = lastOp.at /\ cursor # lastOp.arg

\* C10: step(+1) right after a successful seek(s) lands on s+1 when s+1 is
\* resident and returns OutOfRange otherwise; it never reports success with the
\* cursor still on s; and any step leaves a playing engine paused.
C10_SeekThenStep ==
    [][/\ (lastOp'.op = "step" /\ lastOp'.arg = 1 /\ lastOp'.prev = "seek-ok")
            => /\ IF Resident(cursor + 1)
                  THEN cursor' = cursor + 1 /\ result' = "ok"
                  ELSE cursor' = cursor /\ result' = "OutOfRange"
               /\ ~(result' = "ok" /\ cursor' = cursor)
       /\ (lastOp'.op = "step" /\ pbState = "Playing") => pbState' = "Paused"]_vars

\* C10 witness: step(+1) right after a successful seek to the newest step
\* returned OutOfRange.
C10_Witness ==
    /\ lastOp.op = "step" /\ lastOp.arg = 1 /\ lastOp.prev = "seek-ok"
    /\ result = "OutOfRange"
    /\ cursor = lastOp.at /\ store # <<>> /\ cursor = Newest

\* The same engine with its timer: a wait in flight eventually elapses.
SpecPlaybackFair == InitH /\ [][NextH]_vars /\ WF_vars(Advance)

----------------------------------------------------------------------------
(* SpecViewport: the commands that act on the viewport store, dispatched in *)
(* any order, with direct calls of the store's isolateLayer/releaseLayer.   *)

LayerIds == 0..MaxLayer

\* Arguments of slice: every name of SLICE_DEPTH_MAP, an unknown word, and
\* numbers below, inside and above [0, 1].
SliceArgs ==
    {[name |-> n, num |-> 0] : n \in DOMAIN SLICE_DEPTH_MAP \cup {"foo"}}
        \cup {[name |-> "", num |-> d] : d \in {0 - 200, 500, 1500}}

GetArgs == LayerIds \cup {MaxLayerIndex + 1}

ReleaseArgs == {[name |-> "", num |-> 0]} \cup {[name |-> "layer", num |-> l] : l \in LayerIds}

\* Arguments of contrast: a word, and numbers below, inside and above [0.1, 10].
ContrastArgs ==
    {[name |-> "foo", num |-> 0]}
        \cup {[name |-> "", num |-> g] : g \in {0 - 10, 0, 35, 100, 500}}

InitV ==
    /\ InitFrontend
    /\ batch = [id |-> 1, payload |-> <<10>>, size |-> 1]
    /\ InitProducer
    /\ InitPlayback
    /\ InitUi

NextV ==
    \/ \E a \in SliceArgs : DispatchCommand(ParseSlice(a))
    \/ \E n \in GetArgs : DispatchCommand(ParseGet(n))
    \/ \E a \in ReleaseArgs : DispatchCommand(ParseRelease(a))
    \/ \E a \in ContrastArgs : DispatchCommand(ParseContrast(a))
    \/ \E l \in LayerIds : CallIsolateLayer(l)
    \/ \E l \in LayerIds : CallReleaseLayer(Some(l))
    \/ CallReleaseLayer(None)

SpecViewport == InitV /\ [][NextV]_vars

\* C18: for every slice name of the help text, the depth `slice <name>` stores
\* makes the slice plane upload that same named slice; `slice auto` turns the
\* plane off.
C18_SliceNameIndex ==
    /\ (lastCmd.kind = "slice" /\ lastCmd.name \in DOMAIN SLICE_INDEX)
            => /\ sliceDepth # None
               /\ depthToSliceIndex(sliceDepth[1]) = SLICE_INDEX[lastCmd.name]
    /\ (lastCmd.kind = "slice" /\ lastCmd.name = "auto") => sliceDepth = None

\* No layer occurs twice in the list.
NoDuplicates(layers) ==
    \A j, k \in 1..Len(layers) : layers[j] = layers[k] => j = k

\* C19: isolatedLayers never has more than four entries nor a duplicate, under
\* get and release commands and direct store calls; `get layer N` reports
\* 'Isolated L<N>' exactly when it added N to isolatedLayers.
C19_IsolateAtMostFour ==
    /\ [](Len(isolatedLayers) <= IsolateMax /\ NoDuplicates(isolatedLayers))
    /\ [][lastCmd'.kind = "get" =>
            /\ (cmdOut' = Line("Isolated L", lastCmd'.num))
                    <=> (/\ ~Includes(isolatedLayers, lastCmd'.num)
                         /\ isolatedLayers' = Append(isolatedLayers, lastCmd'.num))
            /\ cmdOut' # Line("Isolated L", lastCmd'.num)
                    => isolatedLayers' = isolatedLayers]_vars

\* C19 witness: with four layers isolated, get of a fifth was refused.
C19_Witness ==
    /\ Len(isolatedLayers) = IsolateMax
    /\ lastCmd.kind = "get" /\ ~Includes(isolatedLayers, lastCmd.num)
    /\ cmdOut = Line("Max 4 isolated layers", 0)

\* C29: the stored gamma lies in [0.1, 10], and the value 'Contrast set to X'
\* reports is the gamma stored.
C29_GammaReported ==
    /\ 1 <= gamma /\ gamma <= 100
    /\ lastCmd.kind = "contrast" => cmdOut = Line("Contrast set to", gamma)

----------------------------------------------------------------------------
(* SpecTerminal: the keyboard: keys pressed with the browser focus in the   *)
(* terminal or in the viewport, and the commands entered.                   *)

\* The commands a line of the terminal parses to here.
TermCommands ==
    {Command(k, "", 0, None) : k \in {"run", "load", "help", "unknown"}}

NextT ==
    \/ \E key \in Keys \ {"Enter", " "} : KeyPress(key, NoCommand)
    \/ \E cmd \in TermCommands \cup {NoCommand} : KeyPress("Enter", cmd)
    \/ \E key \in ARROW_KEYS : KeyUp(key)
    \/ \E where \in {"terminal", "viewport"} : FocusDom(where)
    \/ \E ok \in BOOLEAN : LoadSettles(ok)

SpecTerminal == InitV /\ [][NextT]_vars

\* C20: focus decides where keys go: while the terminal is unfocused no key
\* press changes the terminal's input buffer or enters a command.
C20_FocusRoutesKeys ==
    [][~isFocused => (inputBuffer' = inputBuffer /\ history' = history
                      /\ lastCmd' = lastCmd)]_vars

\* C26: while a command is in flight no key press changes the input buffer,
\* the history or the history cursor, and none dispatches a second command.
C26_BusyIgnoresKeys ==
    [][(busy /\ lastKey' # "none")
            => (inputBuffer' = inputBuffer /\ history' = history
                /\ historyIndex' = historyIndex /\ lastCmd' = lastCmd)]_vars

----------------------------------------------------------------------------
(* SpecRun: the run command and the replies of the server, with the socket *)
(* of the service opening and closing.                                     *)

\* The messages that end a run's response sequence.
ReplyMessages == {[type |-> "inference.result"], [type |-> "error"]}

RunCommands == {Command(k, "", 0, None) : k \in {"run", "help"}}

NextRun ==
    \/ Connect
    \/ \E n \in Sockets : SocketOpen(n)
    \/ \E n \in Sockets : SocketClose(n)
    \/ KeyPress("c", NoCommand)
    \/ \E cmd \in RunCommands : KeyPress("Enter", cmd)
    \/ \E where \in {"terminal", "viewport"} : FocusDom(where)
    \/ \E n \in Sockets, msg \in ReplyMessages : OnMessageJson(n, msg)

SpecRun == InitV /\ [][NextRun]_vars

\* C21: a run that was entered gets its prompt back: entering `run` leaves the
\* terminal with a prompt, or with the request on the socket whose reply
\* (inference.result or error) writes the prompt.
C21_RunGetsPrompt ==
    [][(lastKey' = "Enter" /\ lastCmd'.kind = "run" /\ history' # history)
            => (promptCount' > 0 \/ sent' # sent)]_vars

----------------------------------------------------------------------------
(* SpecHistory: the command history: lines typed, entered and recalled.    *)

HistoryKeys == Keys \ {"Enter", "Backquote"}

NextHistory ==
    \/ \E key \in HistoryKeys : KeyPress(key, NoCommand)
    \/ KeyPress("Enter", Command("help", "", 0, None))
    \/ \E key \in ARROW_KEYS : KeyUp(key)
    \/ \E where \in {"terminal", "viewport"} : FocusDom(where)

SpecHistory == InitV /\ [][NextHistory]_vars

\* The terminal handles the key of this step.
Handled(key) == lastKey' = key /\ domFocus = "terminal" /\ ~busy

\* C22: the history cursor is -1 or an index into the history; Up moves to the
\* next older entry and stays on the oldest; Down moves to the next newer
\* entry and past the newest clears the input and returns to -1; Enter resets
\* the cursor and appends the line only when it is not blank.
C22_HistoryNavigation ==
    /\ [](historyIndex = 0 - 1 \/ (0 <= historyIndex /\ historyIndex < Len(history)))
    /\ [][(Handled("ArrowUp") /\ history # <<>>) =>
            /\ historyIndex' = (IF historyIndex = 0 - 1 THEN Len(history) - 1
                                ELSE IF historyIndex = 0 THEN 0 ELSE historyIndex - 1)
            /\ inputBuffer' = history[historyIndex' + 1]
            /\ history' = history]_vars
    /\ [][(Handled("ArrowDown") /\ historyIndex # 0 - 1) =>
            /\ historyIndex < Len(history) - 1
                    => (historyIndex' = historyIndex + 1
                        /\ inputBuffer' = history[historyIndex' + 1])
            /\ historyIndex = Len(history) - 1
                    => (historyIndex' = 0 - 1 /\ inputBuffer' = <<>>)
            /\ history' = history]_vars
    /\ [][Handled("Enter") =>
            /\ historyIndex' = 0 - 1
            /\ history' = (IF \E k \in 1..Len(inputBuffer) : inputBuffer[k] # " "
                           THEN Append(history, inputBuffer) ELSE history)]_vars

\* C22 witness: Up was pressed on the older of two entries and stayed there.
C22_Witness ==
    /\ lastKey = "ArrowUp" /\ domFocus = "terminal"
    /\ Len(history) = 2 /\ historyIndex = 0 /\ inputBuffer = history[1]
    /\ history[1] # history[2]

----------------------------------------------------------------------------
(* SpecSlices: a run's slice buffer in the store, for every small shape,   *)
(* and the slices copied out of it.                                        *)

MaxDim == 2

\* Binary frame 0x01: num_layers * 6 * seq_len * d_model floats; here float k
\* of the buffer has the value k.
SliceBuffer(layers, seq_len, d_model) ==
    [k \in 1..(layers * NUM_SLICES * seq_len * d_model) |-> k - 1]

InitS ==
    /\ sockState = [n \in Sockets |-> "unused"]
    /\ onclose = [n \in Sockets |-> FALSE]
    /\ ws = 0
    /\ reconnectTimer = FALSE
    /\ sent = <<>>
    /\ numLayers \in 1..MaxLayer
    /\ blockHeat = Some([l \in 1..numLayers |-> 5])
    /\ \E s \in 1..MaxDim, d \in 1..MaxDim :
            /\ sliceMeta = Some([seq_len |-> s, d_model |-> d])
            /\ sliceData = Some(SliceBuffer(numLayers, s, d))
    /\ tokenProj = None
    /\ dimProj = None
    /\ projMeta = None
    /\ received = {}
    /\ rxCount = 0
    /\ lastFrame = None
    /\ run = "slices"
    /\ batch = [id |-> 1, payload |-> <<10>>, size |-> 1]
    /\ InitProducer
    /\ InitPlayback
    /\ InitUi

NextS == \E layer \in 0..(MaxLayer - 1), sliceIdx \in 0..(NUM_SLICES - 1) :
            UploadSlice(layer, sliceIdx)

SpecSlices == InitS /\ [][NextS]_vars

\* The (layer, slice) pairs of the buffer in the store.
SlicePairs == (0..(numLayers - 1)) \X (0..(NUM_SLICES - 1))

\* The offset of a pair in the buffer in the store.
OffsetOf(pair) ==
    getSliceOffset(pair[1], pair[2], sliceMeta[1].seq_len, sliceMeta[1].d_model)

\* C23: slice buffer layout: every slice's range lies inside the buffer, the
\* ranges are ordered layer-major then slice without overlap, together they
\* cover the buffer exactly, and an upload copies exactly its slice's range.
C23_SliceLayout ==
    LET size == sliceMeta[1].seq_len * sliceMeta[1].d_model
        total == Len(sliceData[1])
    IN  /\ total = numLayers * NUM_SLICES * size
        /\ \A p \in SlicePairs : 0 <= OffsetOf(p) /\ OffsetOf(p) + size <= total
        /\ \A p, q \in SlicePairs :
                (p[1] < q[1] \/ (p[1] = q[1] /\ p[2] < q[2]))
                    => OffsetOf(p) + size <= OffsetOf(q)
        /\ \A k \in 0..(total - 1) :
                \E p \in SlicePairs : OffsetOf(p) <= k /\ k < OffsetOf(p) + size
        /\ upload # None =>
                /\ upload[1].offset = (upload[1].layer * 6 + upload[1].slice) * size
                /\ upload[1].data = [k \in 1..size |-> upload[1].offset + k - 1]

\* C23 witness: the last slice of the last of several layers was uploaded, with
\* more than one float per slice; it ends where the buffer ends.
C23_Witness ==
    /\ upload # None /\ numLayers > 1
    /\ upload[1].layer = numLayers - 1 /\ upload[1].slice = 5
    /\ Len(upload[1].data) > 1
    /\ upload[1].offset + Len(upload[1].data) = Len(sliceData[1])

----------------------------------------------------------------------------
(* SpecIsolate: get and release commands while activation frames of models *)
(* of different depth arrive.                                              *)

\* activation.frame messages of models with 1..MaxLayer layers.
FrameMessages ==
    {[type |-> "activation.frame", block_heat |-> [l \in 1..n |-> 5], num_layers |-> n] :
        n \in 1..MaxLayer}

NextI ==
    \/ Connect
    \/ \E n \in Sockets : SocketOpen(n)
    \/ \E n \in Sockets, msg \in FrameMessages : OnMessageJson(n, msg)
    \/ \E n \in GetArgs : DispatchCommand(ParseGet(n))
    \/ \E a \in ReleaseArgs : DispatchCommand(ParseRelease(a))

SpecIsolate == InitV /\ [][NextI]_vars

\* C27: once a model is displayed, every isolated index is one of its blocks:
\* 0 <= index < numLayers.
C27_IsolatedAreBlocks ==
    numLayers > 0 =>
        \A k \in 1..Len(isolatedLayers) :
            0 <= isolatedLayers[k] /\ isolatedLayers[k] < numLayers

----------------------------------------------------------------------------
(* SpecModel: load and info commands entered at the terminal, the REST     *)
(* calls succeeding or failing.                                            *)

ModelNames == {"qwen3", "gemma"}

ModelCommands ==
    {Command("load", m, 0, None) : m \in ModelNames} \cup {Command("info", "", 0, None)}

NextM ==
    \/ KeyPress("c", NoCommand)
    \/ \E cmd \in ModelCommands : KeyPress("Enter", cmd)
    \/ \E where \in {"terminal", "viewport"} : FocusDom(where)
    \/ \E ok \in BOOLEAN : LoadSettles(ok)
    \/ \E ok \in BOOLEAN : InfoSettles(ok)

SpecModel == InitV /\ [][NextM]_vars

\* The model a field of the store describes, None when the field is null.
ModelOfId == IF modelId = None THEN None ELSE Some(modelId[1].adapter)
ModelOfInfo == IF metadata = None THEN None ELSE Some(metadata[1].display_name)

\* C28: model store coherence: modelId is set only in status 'loaded', modelId,
\* modelName and metadata describe one model, and so the prompt and the info
\* command refer to the model modelName names.
C28_ModelCoherent ==
    /\ modelId # None => modelStatus = "loaded"
    /\ modelId # None => (ModelOfId = modelName /\ ModelOfInfo = modelName)
    /\ PromptModel # None => Some(PromptModel[1].adapter) = modelName
    /\ InfoModel # None => Some(InfoModel[1].adapter) = modelName

----------------------------------------------------------------------------
(* SpecFrames: tagged binary frames of any tag and length, with the        *)
(* projection metadata announced or not.                                   *)

\* Frame tags: 0x01 slices, 0x02 projections, and one the handler does not know.
FrameTags == {1, 2, 3}

\* The binary messages: one shorter than its tag, and every tag followed by
\* up to MaxPayload floats.
Frames == {<<>>} \cup {<<t>> \o p : t \in FrameTags, p \in Payloads \cup {<<>>}}

ProjectionMessages == {m \in JsonMessages : m.type = "activation.projections"}

NextF ==
    \/ Connect
    \/ \E n \in Sockets : SocketOpen(n)
    \/ \E n \in Sockets, msg \in ProjectionMessages : OnMessageJson(n, msg)
    \/ \E n \in Sockets, data \in Frames : OnMessageFrame(n, data)

SpecFrames == InitV /\ [][NextF]_vars

\* C30: a frame shorter than its tag, with an unknown tag, or a 0x02 frame
\* without projection metadata leaves the activation store as it is; tokenProj
\* and dimProj are set only by a 0x02 frame while projMeta is set, and then
\* both, as the two parts of its payload split at token_proj_size bytes.
C30_FrameEffect ==
    /\ [][rxCount' = rxCount => UNCHANGED <<tokenProj, dimProj>>]_vars
    /\ [][rxCount' = rxCount + 1 =>
            LET data == lastFrame'[1]
                payload == Tail(data)
            IN  /\ (Len(data) < 1 \/ data[1] \notin {1, 2} \/ (data[1] = 2 /\ projMeta = None))
                        => UNCHANGED <<blockHeat, numLayers, sliceData, sliceMeta, tokenProj,
                                       dimProj, projMeta>>
                /\ (tokenProj' # tokenProj \/ dimProj' # dimProj) =>
                        /\ Len(data) >= 1 /\ data[1] = 2 /\ projMeta # None
                        /\ \E k \in 0..Len(payload) :
                                /\ 4 * k = projMeta[1].token_proj_size
                                /\ tokenProj' = Some(SubSeq(payload, 1, k))
                                /\ dimProj' = Some(SubSeq(payload, k + 1, Len(payload)))]_vars

====
